---- MODULE Spec2Model ----
(***************************************************************************)
(* Coordinate geometry of ocr_perfect: TransformChain (3x3 homogeneous     *)
(* matrices with a lazily cached, bidirectionally linked inverse) and BBox *)
(* (axis-aligned boxes normalised at construction).                        *)
(*                                                                         *)
(* Numbers are exact rationals <<n, d>> (d > 0, lowest terms): the model   *)
(* computes what the float64 code computes up to rounding.  Angles are     *)
(* limited to those whose cosine and sine are rational.                    *)
(*                                                                         *)
(* Reading order of ocr_perfect.ir.ordering: the XY-cut recursion as a     *)
(* stack of frames, and sort_blocks_simple.  There the coordinates are     *)
(* float64 numbers of one binade counted in ulps, and the midpoint of a    *)
(* gap is rounded as float64 rounds it.                                    *)
(*                                                                         *)
(* Tables of ocr_perfect.ir.models: the plain text of a TableBlock.        *)
(***************************************************************************)
EXTENDS Integers, Sequences, FiniteSets, TLC

VARIABLES
    heap,       \* the TransformChain objects, by object id
    thr,        \* the threads: the call each one is in and its locals
    last,       \* the last call that has returned, its arguments and its result
    boxes,      \* the BBox objects, by object id
    stack,      \* the frames of _xy_cut_recursive, the innermost last
    returned    \* the list the callee that has just returned handed back

vars == <<heap, thr, last, boxes, stack, returned>>

\* Python's None where an object is expected (object ids start at 1)
None == 0

\* an optional float argument left out (sy of scale)
Omitted == << >>

----------------------------------------------------------------------------
\* Bounds of the model

\* BBox objects that may exist at a time
MaxBoxes == 4

\* blocks in a list handed to the reading-order functions
MaxBlocks == 4

\* frames of _xy_cut_recursive the interpreter allows before RecursionError
MaxDepth == 6

\* the longest list of blocks that is sorted again in another order
MaxPermuted == 3

\* rows of a table
MaxRows == 3

\* objects the heap may hold
MaxObjs == 3

\* threads that may call invert() at the same time
NumThreads == 2

\* longest point list handed to apply_points
MaxPts == 2

\* BBox operations applied one to the result of the other
MaxChain == 1

\* largest numerator or denominator of a matrix that is composed further
MaxAbs == 1000

----------------------------------------------------------------------------
\* Exact arithmetic standing for float64 arithmetic

Abs(n) == IF n < 0 THEN -n ELSE n

RECURSIVE GCD(_, _)
GCD(a, b) == IF b = 0 THEN a ELSE GCD(b, a % b)

Rat(n, d) ==
    LET s == IF d < 0 THEN -1 ELSE 1
        g == GCD(Abs(n), Abs(d))
    IN  <<(s * n) \div g, (s * d) \div g>>

I(n) == <<n, 1>>

RNeg(a) == <<-a[1], a[2]>>

\* sums over the least common denominator and products after cancelling, to
\* keep the intermediate integers small
RAdd(a, b) ==
    LET g == GCD(a[2], b[2])
    IN  Rat(a[1] * (b[2] \div g) + b[1] * (a[2] \div g), (a[2] \div g) * b[2])

RSub(a, b) == RAdd(a, RNeg(b))

RMul(a, b) ==
    LET g1 == GCD(Abs(a[1]), b[2])
        g2 == GCD(Abs(b[1]), a[2])
    IN  Rat((a[1] \div g1) * (b[1] \div g2), (a[2] \div g2) * (b[2] \div g1))

\* b is not 0
RDiv(a, b) == RMul(a, IF b[1] < 0 THEN <<-b[2], -b[1]>> ELSE <<b[2], b[1]>>)
RLt(a, b) == a[1] * b[2] < b[1] * a[2]
RLe(a, b) == a[1] * b[2] <= b[1] * a[2]
RMin(a, b) == IF RLt(b, a) THEN b ELSE a
RMax(a, b) == IF RLt(a, b) THEN b ELSE a

\* min(xs) and max(xs) of a non-empty list
RECURSIVE MinOf(_)
MinOf(xs) == IF Len(xs) = 1 THEN xs[1] ELSE RMin(xs[1], MinOf(Tail(xs)))

RECURSIVE MaxOf(_)
MaxOf(xs) == IF Len(xs) = 1 THEN xs[1] ELSE RMax(xs[1], MaxOf(Tail(xs)))

----------------------------------------------------------------------------
\* 3x3 matrices (numpy arrays of shape (3, 3)), rows of rationals

eye3 == << <<I(1), I(0), I(0)>>, <<I(0), I(1), I(0)>>, <<I(0), I(0), I(1)>> >>

\* A @ B
MatMul(A, B) ==
    [i \in 1..3 |-> [j \in 1..3 |->
        RAdd(RAdd(RMul(A[i][1], B[1][j]), RMul(A[i][2], B[2][j])),
             RMul(A[i][3], B[3][j]))]]

\* the transpose left out
Transpose_missing(M) == M

\* M.T
Transpose(M) == [i \in 1..3 |-> [j \in 1..3 |-> M[j][i]]]

\* M @ vec for a 3-vector
MatVec(M, v) ==
    [i \in 1..3 |->
        RAdd(RAdd(RMul(M[i][1], v[1]), RMul(M[i][2], v[2])), RMul(M[i][3], v[3]))]

\* vec @ M for a row 3-vector
VecMat(v, M) ==
    [j \in 1..3 |->
        RAdd(RAdd(RMul(v[1], M[1][j]), RMul(v[2], M[2][j])), RMul(v[3], M[3][j]))]

Det2(a, b, c, d) == RSub(RMul(a, d), RMul(b, c))

\* cofactor of entry (i, j)
Cofactor(M, i, j) ==
    LET r == IF i = 1 THEN <<2, 3>> ELSE IF i = 2 THEN <<1, 3>> ELSE <<1, 2>>
        c == IF j = 1 THEN <<2, 3>> ELSE IF j = 2 THEN <<1, 3>> ELSE <<1, 2>>
        m == Det2(M[r[1]][c[1]], M[r[1]][c[2]], M[r[2]][c[1]], M[r[2]][c[2]])
    IN  IF (i + j) % 2 = 0 THEN m ELSE RNeg(m)

Det(M) ==
    RAdd(RAdd(RMul(M[1][1], Cofactor(M, 1, 1)), RMul(M[1][2], Cofactor(M, 1, 2))),
         RMul(M[1][3], Cofactor(M, 1, 3)))

\* np.linalg.inv raises LinAlgError("Singular matrix") on these
Singular(M) == Det(M) = I(0)

\* the cofactors not transposed into the adjugate
linalg_inv_untransposed(M) ==
    LET dt == Det(M)
    IN  [i \in 1..3 |-> [j \in 1..3 |-> RDiv(Cofactor(M, i, j), dt)]]

\* the adjugate not divided by the determinant
linalg_inv_adjugate(M) == [i \in 1..3 |-> [j \in 1..3 |-> Cofactor(M, j, i)]]

\* np.linalg.inv(M) of a non-singular matrix
linalg_inv(M) ==
    LET dt == Det(M)
    IN  [i \in 1..3 |-> [j \in 1..3 |-> RDiv(Cofactor(M, j, i), dt)]]

----------------------------------------------------------------------------
\* CoordinateSpace

CoordinateSpace == {"PDF", "RASTER", "PREPROCESSED"}

----------------------------------------------------------------------------
\* BBox

\* __post_init__ swapping x only
BBox_swap_x_only(x1, y1, x2, y2, space) ==
    LET swapx == RLt(x2, x1)
    IN  [x1 |-> IF swapx THEN x2 ELSE x1, y1 |-> y1,
         x2 |-> IF swapx THEN x1 ELSE x2, y2 |-> y2, space |-> space]

\* BBox(x1, y1, x2, y2, space): the dataclass constructor and __post_init__
BBox(x1, y1, x2, y2, space) ==
    LET swapx == RLt(x2, x1)
        swapy == RLt(y2, y1)
    IN  [x1 |-> IF swapx THEN x2 ELSE x1,
         y1 |-> IF swapy THEN y2 ELSE y1,
         x2 |-> IF swapx THEN x1 ELSE x2,
         y2 |-> IF swapy THEN y1 ELSE y2,
         space |-> space]

width(b) == RSub(b.x2, b.x1)

height(b) == RSub(b.y2, b.y1)

area(b) == RMul(width(b), height(b))

center(b) == <<RDiv(RAdd(b.x1, b.x2), I(2)), RDiv(RAdd(b.y1, b.y2), I(2))>>

corners(b) == << <<b.x1, b.y1>>, <<b.x2, b.y1>>, <<b.x2, b.y2>>, <<b.x1, b.y2>> >>

from_xywh(x, y, w, h, space) == BBox(x, y, RAdd(x, w), RAdd(y, h), space)

contains_point(b, x, y) == RLe(b.x1, x) /\ RLe(x, b.x2) /\ RLe(b.y1, y) /\ RLe(y, b.y2)

contains_bbox(b, other) ==
    RLe(b.x1, other.x1) /\ RLe(b.y1, other.y1) /\ RLe(other.x2, b.x2) /\ RLe(other.y2, b.y2)

\* overlap tested on the x axis alone
intersects_x_only(b, other) ==
    ~(RLt(b.x2, other.x1) \/ RLt(other.x2, b.x1))

\* boxes that share only an edge or a corner taken as apart
intersects_strict(b, other) ==
    ~(RLe(b.x2, other.x1) \/ RLe(other.x2, b.x1) \/ RLe(b.y2, other.y1) \/ RLe(other.y2, b.y1))

intersects(b, other) ==
    ~(RLt(b.x2, other.x1) \/ RLt(other.x2, b.x1) \/ RLt(b.y2, other.y1) \/ RLt(other.y2, b.y1))

\* the result tagged with the space of the argument
intersection_space_of_other(b, other) ==
    IF ~intersects(b, other) THEN << >>
    ELSE BBox(RMax(b.x1, other.x1), RMax(b.y1, other.y1),
              RMin(b.x2, other.x2), RMin(b.y2, other.y2), other.space)

\* a BBox, or << >> for Python's None
intersection(b, other) ==
    IF ~intersects(b, other) THEN << >>
    ELSE BBox(RMax(b.x1, other.x1), RMax(b.y1, other.y1),
              RMin(b.x2, other.x2), RMin(b.y2, other.y2), b.space)

union(b, other) ==
    BBox(RMin(b.x1, other.x1), RMin(b.y1, other.y1),
         RMax(b.x2, other.x2), RMax(b.y2, other.y2), b.space)

\* the intersection counted twice in the union area
iou_no_subtract(b, other) ==
    LET inter == intersection(b, other)
    IN  IF inter = << >> THEN I(0)
        ELSE LET inter_area == area(inter)
                 union_area == RAdd(area(b), area(other))
             IN  IF RLe(union_area, I(0)) THEN I(0) ELSE RDiv(inter_area, union_area)

\* the intersection over the area of the argument
iou_over_other(b, other) ==
    LET inter == intersection(b, other)
    IN  IF inter = << >> THEN I(0)
        ELSE LET inter_area == area(inter)
                 union_area == area(other)
             IN  IF RLe(union_area, I(0)) THEN I(0) ELSE RDiv(inter_area, union_area)

iou(b, other) ==
    LET inter == intersection(b, other)
    IN  IF inter = << >> THEN I(0)
        ELSE LET inter_area == area(inter)
                 union_area == RSub(RAdd(area(b), area(other)), inter_area)
             IN  IF RLe(union_area, I(0)) THEN I(0) ELSE RDiv(inter_area, union_area)

pad(b, padding) ==
    BBox(RSub(b.x1, padding), RSub(b.y1, padding),
         RAdd(b.x2, padding), RAdd(b.y2, padding), b.space)

pad_xy(b, pad_x, pad_y) ==
    BBox(RSub(b.x1, pad_x), RSub(b.y1, pad_y),
         RAdd(b.x2, pad_x), RAdd(b.y2, pad_y), b.space)

bbox_scale(b, factor) ==
    LET c == center(b)
        half_w == RDiv(RMul(width(b), factor), I(2))
        half_h == RDiv(RMul(height(b), factor), I(2))
    IN  BBox(RSub(c[1], half_w), RSub(c[2], half_h),
             RAdd(c[1], half_w), RAdd(c[2], half_h), b.space)

clip(b, bounds) ==
    BBox(RMax(b.x1, bounds.x1), RMax(b.y1, bounds.y1),
         RMin(b.x2, bounds.x2), RMin(b.y2, bounds.y2), b.space)

with_space(b, space) == BBox(b.x1, b.y1, b.x2, b.y2, space)

----------------------------------------------------------------------------
\* TransformChain: the matrices of the named constructors

\* matrix.shape
shape(m) == <<Len(m), IF Len(m) = 0 THEN 0 ELSE Len(m[1])>>

\* the object __init__ builds: the matrix and an empty inverse cache
TransformChain(matrix) == [matrix |-> matrix, inverse |-> None]

identity == eye3

scale(sx, sy) ==
    LET sy2 == IF sy = Omitted THEN sx ELSE sy
    IN  << <<sx, I(0), I(0)>>, <<I(0), sy2, I(0)>>, <<I(0), I(0), I(1)>> >>

translate(dx, dy) ==
    << <<I(1), I(0), dx>>, <<I(0), I(1), dy>>, <<I(0), I(0), I(1)>> >>

\* math.cos(math.radians(a)) and math.sin(math.radians(a)), for the angles whose
\* cosine and sine are rational; 53 abbreviates atan(4/3) = 53.13... degrees
cos_deg(a) ==
    CASE a = 0 -> I(1) [] a = 90 -> I(0) [] a = 180 -> I(-1) [] a = 270 -> I(0)
      [] a = 53 -> Rat(3, 5)

sin_deg(a) ==
    CASE a = 0 -> I(0) [] a = 90 -> I(1) [] a = 180 -> I(0) [] a = 270 -> I(-1)
      [] a = 53 -> Rat(4, 5)

\* rotate that turns clockwise
rotate_clockwise(angle_deg, ctr) ==
    LET cos_a == cos_deg(angle_deg)
        sin_a == RNeg(sin_deg(angle_deg))
        cx == ctr[1]
        cy == ctr[2]
    IN  << <<cos_a, RNeg(sin_a), RAdd(RSub(cx, RMul(cx, cos_a)), RMul(cy, sin_a))>>,
           <<sin_a, cos_a, RSub(RSub(cy, RMul(cx, sin_a)), RMul(cy, cos_a))>>,
           <<I(0), I(0), I(1)>> >>

rotate(angle_deg, ctr) ==
    LET cos_a == cos_deg(angle_deg)
        sin_a == sin_deg(angle_deg)
        cx == ctr[1]
        cy == ctr[2]
    IN  << <<cos_a, RNeg(sin_a), RAdd(RSub(cx, RMul(cx, cos_a)), RMul(cy, sin_a))>>,
           <<sin_a, cos_a, RSub(RSub(cy, RMul(cx, sin_a)), RMul(cy, cos_a))>>,
           <<I(0), I(0), I(1)>> >>

\* source_dpi is not 0: the division raises ZeroDivisionError otherwise
from_dpi_scale(source_dpi, target_dpi) ==
    LET sc == RDiv(target_dpi, source_dpi)
    IN  scale(sc, sc)

flip_y(h) ==
    << <<I(1), I(0), I(0)>>, <<I(0), I(-1), h>>, <<I(0), I(0), I(1)>> >>

\* the operands of the product exchanged
compose_self_other(self, other) == MatMul(self, other)

\* self.compose(other): the matrix other @ self
compose(self, other) == MatMul(other, self)

\* self @ other
matmul(self, other) == compose(self, other)

apply_point(M, x, y) ==
    LET result == MatVec(M, <<x, y, I(1)>>)
    IN  <<result[1], result[2]>>

apply_points(M, points) ==
    IF points = << >> THEN << >>
    ELSE LET pts == [k \in 1..Len(points) |-> <<points[k][1], points[k][2], I(1)>>]
             transformed == [k \in 1..Len(points) |-> VecMat(pts[k], Transpose(M))]
         IN  [k \in 1..Len(points) |-> <<transformed[k][1], transformed[k][2]>>]

\* only the top-left and bottom-right corners transformed
apply_bbox_two_corners(M, bbox, target_space) ==
    LET transformed == apply_points(M, <<corners(bbox)[1], corners(bbox)[3]>>)
    IN  BBox(transformed[1][1], transformed[1][2], transformed[2][1], transformed[2][2],
             target_space)

apply_bbox(M, bbox, target_space) ==
    LET transformed == apply_points(M, corners(bbox))
        xs == [k \in 1..4 |-> transformed[k][1]]
        ys == [k \in 1..4 |-> transformed[k][2]]
    IN  BBox(MinOf(xs), MinOf(ys), MaxOf(xs), MaxOf(ys), target_space)

\* (rx - x) ** 2 + (ry - y) ** 2: the square of the distance round_trip_error
\* returns (math.sqrt of it is 0 exactly when it is 0)
round_trip_sq(M, Minv, x, y) ==
    LET t == apply_point(M, x, y)
        r == apply_point(Minv, t[1], t[2])
        dx == RSub(r[1], x)
        dy == RSub(r[2], y)
    IN  RAdd(RMul(dx, dx), RMul(dy, dy))

----------------------------------------------------------------------------
\* Inputs the operations are called with

\* (sx, sy), (dx, dy), (angle_deg, center)
ScaleArgs == {<<I(2), Omitted>>, <<I(0), Omitted>>, <<I(2), I(3)>>}
TranslateArgs == {<<I(50), I(50)>>}
RotateArgs == {<<90, <<I(0), I(0)>>>>, <<53, <<I(50), I(50)>>>>}
DpiArgs == {<<I(72), I(300)>>}
FlipHeights == {I(100)}

\* points (x, y)
Pts == {<<I(100), I(100)>>, <<I(-7), I(50)>>}

\* lists of at most n points
RECURSIVE PointLists(_)
PointLists(n) ==
    IF n = 0 THEN {<< >>}
    ELSE PointLists(n - 1) \cup
         {Append(l, p) : l \in {q \in PointLists(n - 1) : Len(q) = n - 1}, p \in Pts}

\* arguments (x1, y1, x2, y2) of the BBox constructor
BoxArgs ==
    {<<I(300), I(400), I(100), I(200)>>, <<I(100), I(200), I(300), I(400)>>,
     <<I(0), I(0), I(100), I(50)>>, <<I(100), I(50), I(0), I(0)>>,
     <<I(100), I(200), I(100), I(400)>>, <<I(-7), I(50), I(100), I(0)>>}

Spaces == {"PDF", "RASTER"}

\* coordinate lists handed to BBox.from_list
ListArgs ==
    BoxArgs \cup {<<I(300), I(400), I(100)>>, <<I(300), I(400), I(100), I(200), I(0)>>}

\* arguments (x, y, w, h) of BBox.from_xywh
XywhArgs ==
    {<<I(100), I(200), I(200), I(200)>>, <<I(300), I(400), I(-200), I(-200)>>,
     <<I(0), I(0), I(0), I(-50)>>}

Paddings == {I(10), I(-150)}

Factors == {I(2), Rat(1, 2), I(0), I(-1)}

\* arrays handed to TransformChain(matrix): affine and projective 3x3 matrices,
\* and arrays of shape (2, 3) and (4, 4)
RawMatrices ==
    {eye3, translate(I(50), I(50)), scale(I(0), Omitted),
     << <<I(1), I(0), I(0)>>, <<I(0), I(1), I(0)>>, <<I(1), I(0), I(1)>> >>,
     << <<I(1), I(0), I(0)>>, <<I(0), I(1), I(0)>>, <<I(0), I(0), I(2)>> >>,
     << <<I(1), I(0), I(0)>>, <<I(0), I(1), I(0)>> >>,
     << <<I(1), I(0), I(0), I(0)>>, <<I(0), I(1), I(0), I(0)>>,
        <<I(0), I(0), I(1), I(0)>>, <<I(0), I(0), I(0), I(1)>> >>}

\* the matrices the named constructors build from these inputs
NamedMatrices ==
    {identity}
    \cup {scale(a[1], a[2]) : a \in ScaleArgs}
    \cup {translate(d[1], d[2]) : d \in TranslateArgs}
    \cup {rotate(a[1], a[2]) : a \in RotateArgs}
    \cup {from_dpi_scale(a[1], a[2]) : a \in DpiArgs}
    \cup {flip_y(h) : h \in FlipHeights}

----------------------------------------------------------------------------
\* State

Threads == 1..NumThreads

Objs == 1..Len(heap)

\* a thread that is in no call; the fields are the locals of invert() and of
\* round_trip_error(), pc the line of transforms.py the thread is about to run
IdleThread ==
    [pc |-> "idle", op |-> "none", self |-> None, pt |-> << >>,
     inv_matrix |-> << >>, tmp |-> None, ret |-> None, out |-> << >>]

NoCall == [op |-> "none"]

\* no callee has returned a list
NoReturn == [set |-> FALSE]

\* no thread is inside a call
Quiescent == \A th \in Threads : thr[th].pc \in {"idle", "done", "raised"}

\* the next operation of a single thread of control forgets the last one
Forget == thr' = [th \in Threads |-> IdleThread]

\* no object yet
Init ==
    /\ heap = << >>
    /\ thr = [th \in Threads |-> IdleThread]
    /\ last = NoCall
    /\ boxes = << >>
    /\ stack = << >>
    /\ returned = NoReturn

\* the numbers of matrix M are within the model's range
Bounded(M) ==
    \A i \in 1..3, j \in 1..3 : Abs(M[i][j][1]) <= MaxAbs /\ M[i][j][2] <= MaxAbs

\* the chains a.compose(b) of two named constructors, and the constructors alone
ChainMatrices == NamedMatrices \cup {compose(a, b) : a \in NamedMatrices, b \in NamedMatrices}

\* one chain, its temporaries discarded
InitChain ==
    /\ heap \in {<<TransformChain(m)>> : m \in ChainMatrices}
    /\ thr = [th \in Threads |-> IdleThread]
    /\ last = NoCall
    /\ boxes = << >>
    /\ stack = << >>
    /\ returned = NoReturn

\* two transforms built by named constructors
InitPair ==
    /\ heap \in {<<TransformChain(a), TransformChain(b)>> :
                     a \in NamedMatrices, b \in NamedMatrices}
    /\ thr = [th \in Threads |-> IdleThread]
    /\ last = NoCall
    /\ boxes = << >>
    /\ stack = << >>
    /\ returned = NoReturn

\* the transform the threads share: one that is invertible, one that is singular
SharedMatrices == {scale(I(2), I(3)), scale(I(0), Omitted)}

InitShared ==
    /\ heap \in {<<TransformChain(m)>> : m \in SharedMatrices}
    /\ thr = [th \in Threads |-> IdleThread]
    /\ last = NoCall
    /\ boxes = << >>
    /\ stack = << >>
    /\ returned = NoReturn

\* one transform built by a named constructor
InitOne ==
    /\ heap \in {<<TransformChain(m)>> : m \in NamedMatrices}
    /\ thr = [th \in Threads |-> IdleThread]
    /\ last = NoCall
    /\ boxes = << >>
    /\ stack = << >>
    /\ returned = NoReturn

----------------------------------------------------------------------------
\* TransformChain.compose and the @ operator, each allocating one object

\* a.compose(b)
Compose ==
    \E a \in Objs, b \in Objs :
        /\ Quiescent
        /\ Len(heap) < MaxObjs
        /\ Bounded(heap[a].matrix) /\ Bounded(heap[b].matrix)
        /\ Bounded(compose(heap[a].matrix, heap[b].matrix))
        /\ heap' = Append(heap, TransformChain(compose(heap[a].matrix, heap[b].matrix)))
        /\ last' = [op |-> "compose", self |-> a, other |-> b, out |-> Len(heap) + 1]
        /\ Forget
        /\ UNCHANGED <<boxes, stack, returned>>

\* a @ b
Matmul ==
    \E a \in Objs, b \in Objs :
        /\ Quiescent
        /\ Len(heap) < MaxObjs
        /\ Bounded(heap[a].matrix) /\ Bounded(heap[b].matrix)
        /\ Bounded(matmul(heap[a].matrix, heap[b].matrix))
        /\ heap' = Append(heap, TransformChain(matmul(heap[a].matrix, heap[b].matrix)))
        /\ last' = [op |-> "matmul", self |-> a, other |-> b, out |-> Len(heap) + 1]
        /\ Forget
        /\ UNCHANGED <<boxes, stack, returned>>

----------------------------------------------------------------------------
\* TransformChain.invert, one step per shared read or write, and
\* round_trip_error, which calls it

CallInvert(th) ==
    \E t \in Objs :
        /\ thr[th].pc \in {"idle", "done", "raised"}
        /\ thr' = [thr EXCEPT ![th] = [IdleThread EXCEPT !.pc = "L171", !.op = "invert",
                                                          !.self = t]]
        /\ last' = NoCall
        /\ UNCHANGED heap
        /\ UNCHANGED <<boxes, stack, returned>>

CallRoundTripError(th) ==
    \E t \in Objs, p \in Pts :
        /\ thr[th].pc \in {"idle", "done", "raised"}
        /\ thr' = [thr EXCEPT ![th] = [IdleThread EXCEPT !.pc = "L171",
                                                          !.op = "round_trip_error",
                                                          !.self = t, !.pt = p]]
        /\ last' = NoCall
        /\ UNCHANGED heap
        /\ UNCHANGED <<boxes, stack, returned>>

\* if self._inverse is None:
L171(th) ==
    /\ thr[th].pc = "L171"
    /\ thr' = [thr EXCEPT ![th].pc =
                  IF heap[thr[th].self].inverse = None THEN "L172" ELSE "L175"]
    /\ UNCHANGED <<heap, last>>
    /\ UNCHANGED <<boxes, stack, returned>>

\* a singular matrix answered with the identity as its inverse
L172_fallback(th) ==
    /\ thr[th].pc = "L172"
    /\ LET M == heap[thr[th].self].matrix
       IN  thr' = [thr EXCEPT ![th].pc = "L173",
                              ![th].inv_matrix = IF Singular(M) THEN eye3 ELSE linalg_inv(M)]
    /\ UNCHANGED <<heap, last>>
    /\ UNCHANGED <<boxes, stack, returned>>

\* inv_matrix = np.linalg.inv(self._matrix), which raises on a singular matrix;
\* the exception leaves invert() and round_trip_error()
L172(th) ==
    /\ thr[th].pc = "L172"
    /\ LET M == heap[thr[th].self].matrix
       IN  IF Singular(M)
           THEN thr' = [thr EXCEPT ![th].pc = "raised"]
           ELSE thr' = [thr EXCEPT ![th].pc = "L173", ![th].inv_matrix = linalg_inv(M)]
    /\ UNCHANGED <<heap, last>>
    /\ UNCHANGED <<boxes, stack, returned>>

\* self._inverse = TransformChain(inv_matrix)
L173(th) ==
    /\ thr[th].pc = "L173"
    /\ Len(heap) < MaxObjs
    /\ heap' = Append([heap EXCEPT ![thr[th].self].inverse = Len(heap) + 1],
                      TransformChain(thr[th].inv_matrix))
    /\ thr' = [thr EXCEPT ![th].pc = "L174", ![th].inv_matrix = << >>]
    /\ UNCHANGED last
    /\ UNCHANGED <<boxes, stack, returned>>

\* self._inverse._inverse = self: the read of self._inverse ...
L174(th) ==
    /\ thr[th].pc = "L174"
    /\ thr' = [thr EXCEPT ![th].pc = "L174w", ![th].tmp = heap[thr[th].self].inverse]
    /\ UNCHANGED <<heap, last>>
    /\ UNCHANGED <<boxes, stack, returned>>

\* the back-pointer stored as a pointer of the inverse to itself
L174w_to_inverse(th) ==
    /\ thr[th].pc = "L174w"
    /\ heap' = [heap EXCEPT ![thr[th].tmp].inverse = thr[th].tmp]
    /\ thr' = [thr EXCEPT ![th].pc = "L175", ![th].tmp = None]
    /\ UNCHANGED last
    /\ UNCHANGED <<boxes, stack, returned>>

\* the back-pointer never stored
L174w_skipped(th) ==
    /\ thr[th].pc = "L174w"
    /\ thr' = [thr EXCEPT ![th].pc = "L175", ![th].tmp = None]
    /\ UNCHANGED <<heap, last>>
    /\ UNCHANGED <<boxes, stack, returned>>

\* ... and the write of its _inverse
L174w(th) ==
    /\ thr[th].pc = "L174w"
    /\ heap' = [heap EXCEPT ![thr[th].tmp].inverse = thr[th].self]
    /\ thr' = [thr EXCEPT ![th].pc = "L175", ![th].tmp = None]
    /\ UNCHANGED last
    /\ UNCHANGED <<boxes, stack, returned>>

\* self returned in place of self._inverse
L175_returns_self(th) ==
    /\ thr[th].pc = "L175"
    /\ thr' = [thr EXCEPT ![th].pc = "done", ![th].ret = thr[th].self,
                           ![th].out =
                               IF thr[th].op = "round_trip_error"
                               THEN round_trip_sq(heap[thr[th].self].matrix,
                                                  heap[thr[th].self].matrix,
                                                  thr[th].pt[1], thr[th].pt[2])
                               ELSE << >>]
    /\ UNCHANGED <<heap, last>>
    /\ UNCHANGED <<boxes, stack, returned>>

\* return self._inverse; round_trip_error goes on to lines 250-251
L175(th) ==
    /\ thr[th].pc = "L175"
    /\ LET t == thr[th].self
           r == heap[t].inverse
       IN  thr' = [thr EXCEPT ![th].pc = "done", ![th].ret = r,
                              ![th].out =
                                  IF thr[th].op = "round_trip_error"
                                  THEN round_trip_sq(heap[t].matrix, heap[r].matrix,
                                                     thr[th].pt[1], thr[th].pt[2])
                                  ELSE << >>]
    /\ UNCHANGED <<heap, last>>
    /\ UNCHANGED <<boxes, stack, returned>>

InvertStep(th) ==
    \/ L171(th)
    \/ L172(th)
    \/ L173(th)
    \/ L174(th)
    \/ L174w(th)
    \/ L175(th)

----------------------------------------------------------------------------
\* TransformChain: applying a transform

ApplyPoint ==
    \E t \in Objs, p \in Pts :
        /\ Quiescent
        /\ last' = [op |-> "apply_point", self |-> t, pt |-> p,
                    out |-> apply_point(heap[t].matrix, p[1], p[2])]
        /\ Forget
        /\ UNCHANGED heap
        /\ UNCHANGED <<boxes, stack, returned>>

ApplyPoints ==
    \E t \in Objs, ps \in PointLists(MaxPts) :
        /\ Quiescent
        /\ last' = [op |-> "apply_points", self |-> t, points |-> ps,
                    out |-> apply_points(heap[t].matrix, ps)]
        /\ Forget
        /\ UNCHANGED heap
        /\ UNCHANGED <<boxes, stack, returned>>

\* angles and centers of rotations, and the points they are applied to
Angles == {90, 180, 53}

Centers == {<<I(0), I(0)>>, <<I(50), I(50)>>}

RotatedPts ==
    {<<I(100), I(0)>>, <<I(100), I(50)>>, <<I(50), I(50)>>, <<I(0), I(0)>>, <<I(-7), I(50)>>}

\* TransformChain.rotate(angle_deg, center)
Rotate ==
    \E angle_deg \in Angles, ctr \in Centers :
        /\ Quiescent
        /\ Len(heap) < MaxObjs
        /\ heap' = Append(heap, TransformChain(rotate(angle_deg, ctr)))
        /\ last' = [op |-> "rotate", angle_deg |-> angle_deg, center |-> ctr,
                    out |-> Len(heap) + 1]
        /\ Forget
        /\ UNCHANGED <<boxes, stack, returned>>

\* t.apply_point(x, y) on a rotation
ApplyPointRotated ==
    \E t \in Objs, p \in RotatedPts :
        /\ Quiescent
        /\ last' = [op |-> "apply_point", self |-> t, pt |-> p,
                    out |-> apply_point(heap[t].matrix, p[1], p[2])]
        /\ Forget
        /\ UNCHANGED heap
        /\ UNCHANGED <<boxes, stack, returned>>

\* TransformChain(matrix): __init__ called with an array
Construct ==
    \E m \in RawMatrices :
        /\ Quiescent
        /\ Forget
        /\ IF shape(m) # <<3, 3>>
           THEN /\ last' = [op |-> "TransformChain", matrix |-> m, raised |-> "ValueError"]
                /\ UNCHANGED heap
           ELSE /\ Len(heap) < MaxObjs
                /\ heap' = Append(heap, TransformChain(m))
                /\ last' = [op |-> "TransformChain", matrix |-> m, out |-> Len(heap) + 1]
        /\ UNCHANGED <<boxes, stack, returned>>

----------------------------------------------------------------------------
\* BBox operations; last.out is the box the last one returned

BoxOps ==
    {"BBox", "from_list", "from_xywh", "pad", "pad_xy", "scale", "union",
     "intersection", "clip", "with_space", "apply_bbox"}

\* Python's None where a BBox is expected
NoBox == << >>

BoxResult(op, args, out, depth) == [op |-> op, args |-> args, out |-> out, depth |-> depth]

\* the last operation returned a box
HasBox == last.op \in BoxOps /\ last.out # NoBox

\* the boxes the next operation may be called on
CurBoxes == IF HasBox /\ last.depth < MaxChain THEN {last.out} ELSE {}

\* the boxes given as the other argument
OtherBoxes == {BBox(a[1], a[2], a[3], a[4], sp) : a \in BoxArgs, sp \in Spaces}

BBoxNew ==
    \E a \in BoxArgs, sp \in Spaces :
        /\ last' = BoxResult("BBox", <<a, sp>>, BBox(a[1], a[2], a[3], a[4], sp), 0)
        /\ UNCHANGED <<heap, thr>>
        /\ UNCHANGED <<boxes, stack, returned>>

\* a list that is too long cut to its first four elements
FromList_truncates ==
    \E coords \in ListArgs, sp \in Spaces :
        /\ IF Len(coords) < 4
           THEN last' = [op |-> "from_list", args |-> <<coords, sp>>, out |-> NoBox,
                         depth |-> 0, raised |-> "ValueError"]
           ELSE last' = BoxResult("from_list", <<coords, sp>>,
                                  BBox(coords[1], coords[2], coords[3], coords[4], sp), 0)
        /\ UNCHANGED <<heap, thr>>
        /\ UNCHANGED <<boxes, stack, returned>>

FromList ==
    \E coords \in ListArgs, sp \in Spaces :
        /\ IF Len(coords) # 4
           THEN last' = [op |-> "from_list", args |-> <<coords, sp>>, out |-> NoBox,
                         depth |-> 0, raised |-> "ValueError"]
           ELSE last' = BoxResult("from_list", <<coords, sp>>,
                                  BBox(coords[1], coords[2], coords[3], coords[4], sp), 0)
        /\ UNCHANGED <<heap, thr>>
        /\ UNCHANGED <<boxes, stack, returned>>

FromXYWH ==
    \E a \in XywhArgs, sp \in Spaces :
        /\ last' = BoxResult("from_xywh", <<a, sp>>, from_xywh(a[1], a[2], a[3], a[4], sp), 0)
        /\ UNCHANGED <<heap, thr>>
        /\ UNCHANGED <<boxes, stack, returned>>

Pad ==
    \E b \in CurBoxes, padding \in Paddings :
        /\ last' = BoxResult("pad", <<b, padding>>, pad(b, padding), last.depth + 1)
        /\ UNCHANGED <<heap, thr>>
        /\ UNCHANGED <<boxes, stack, returned>>

PadXY ==
    \E b \in CurBoxes, pad_x \in Paddings, pad_y \in Paddings :
        /\ last' = BoxResult("pad_xy", <<b, pad_x, pad_y>>, pad_xy(b, pad_x, pad_y),
                             last.depth + 1)
        /\ UNCHANGED <<heap, thr>>
        /\ UNCHANGED <<boxes, stack, returned>>

BBoxScale ==
    \E b \in CurBoxes, factor \in Factors :
        /\ last' = BoxResult("scale", <<b, factor>>, bbox_scale(b, factor), last.depth + 1)
        /\ UNCHANGED <<heap, thr>>
        /\ UNCHANGED <<boxes, stack, returned>>

Union ==
    \E b \in CurBoxes, other \in OtherBoxes :
        /\ last' = BoxResult("union", <<b, other>>, union(b, other), last.depth + 1)
        /\ UNCHANGED <<heap, thr>>
        /\ UNCHANGED <<boxes, stack, returned>>

Intersection ==
    \E b \in CurBoxes, other \in OtherBoxes :
        /\ last' = BoxResult("intersection", <<b, other>>, intersection(b, other),
                             last.depth + 1)
        /\ UNCHANGED <<heap, thr>>
        /\ UNCHANGED <<boxes, stack, returned>>

Clip ==
    \E b \in CurBoxes, bounds \in OtherBoxes :
        /\ last' = BoxResult("clip", <<b, bounds>>, clip(b, bounds), last.depth + 1)
        /\ UNCHANGED <<heap, thr>>
        /\ UNCHANGED <<boxes, stack, returned>>

WithSpace ==
    \E b \in CurBoxes, sp \in CoordinateSpace :
        /\ last' = BoxResult("with_space", <<b, sp>>, with_space(b, sp), last.depth + 1)
        /\ UNCHANGED <<heap, thr>>
        /\ UNCHANGED <<boxes, stack, returned>>

\* t.apply_bbox(b, target_space) on the box the last operation returned
ApplyBBoxCur ==
    \E t \in Objs, b \in CurBoxes, target_space \in Spaces :
        /\ last' = [op |-> "apply_bbox", self |-> t, args |-> <<b, target_space>>,
                    out |-> apply_bbox(heap[t].matrix, b, target_space),
                    depth |-> last.depth + 1]
        /\ UNCHANGED <<heap, thr>>
        /\ UNCHANGED <<boxes, stack, returned>>

\* t.invert().apply_bbox(t.apply_bbox(b, s), b.space): t.invert() has returned
\* to thread 1, and t.apply_bbox(b, s) is evaluated as the argument
ApplyBBoxForward ==
    \E b \in OtherBoxes, target_space \in Spaces :
        /\ thr[1].pc = "done"
        /\ thr[1].op = "invert"
        /\ last = NoCall
        /\ last' = [op |-> "apply_bbox", self |-> thr[1].self, args |-> <<b, target_space>>,
                    out |-> apply_bbox(heap[thr[1].self].matrix, b, target_space)]
        /\ UNCHANGED <<heap, thr, boxes, stack, returned>>

\* the box mapped back by the transform itself
ApplyBBoxBack_by_chain ==
    /\ thr[1].pc = "done"
    /\ thr[1].op = "invert"
    /\ last.op = "apply_bbox"
    /\ "box" \notin DOMAIN last
    /\ last' = [op |-> "apply_bbox", self |-> thr[1].self,
                args |-> <<last.out, last.args[1].space>>,
                out |-> apply_bbox(heap[thr[1].self].matrix, last.out, last.args[1].space),
                chain |-> last.self, box |-> last.args[1]]
    /\ UNCHANGED <<heap, thr, boxes, stack, returned>>

\* ... and the inverse returned maps the result back into the space of b; the
\* caller holds t and b
ApplyBBoxBack ==
    /\ thr[1].pc = "done"
    /\ thr[1].op = "invert"
    /\ last.op = "apply_bbox"
    /\ "box" \notin DOMAIN last
    /\ last' = [op |-> "apply_bbox", self |-> thr[1].ret,
                args |-> <<last.out, last.args[1].space>>,
                out |-> apply_bbox(heap[thr[1].ret].matrix, last.out, last.args[1].space),
                chain |-> last.self, box |-> last.args[1]]
    /\ UNCHANGED <<heap, thr, boxes, stack, returned>>

----------------------------------------------------------------------------
\* BBox methods of two boxes: a.intersects(b), a.intersection(b), a.union(b)
\* and a.iou(b)

\* boxes around (100, 100, 200, 200): itself, one that shares its right edge,
\* one that shares its bottom edge, one that overlaps it, one apart on both
\* axes, one apart on the y axis alone, a point and a vertical line inside it
PairArgs ==
    {<<I(100), I(100), I(200), I(200)>>, <<I(200), I(100), I(300), I(200)>>,
     <<I(100), I(200), I(200), I(300)>>, <<I(150), I(150), I(250), I(250)>>,
     <<I(300), I(300), I(400), I(400)>>, <<I(100), I(300), I(200), I(400)>>,
     <<I(10), I(10), I(10), I(10)>>, <<I(150), I(100), I(150), I(200)>>}

PairBoxes == {BBox(a[1], a[2], a[3], a[4], sp) : a \in PairArgs, sp \in Spaces}

Intersects ==
    \E a \in PairBoxes, b \in PairBoxes :
        /\ last' = [op |-> "intersects", args |-> <<a, b>>, out |-> intersects(a, b)]
        /\ UNCHANGED <<heap, thr, boxes, stack, returned>>

IntersectionPair ==
    \E a \in PairBoxes, b \in PairBoxes :
        /\ last' = BoxResult("intersection", <<a, b>>, intersection(a, b), MaxChain)
        /\ UNCHANGED <<heap, thr, boxes, stack, returned>>

UnionPair ==
    \E a \in PairBoxes, b \in PairBoxes :
        /\ last' = BoxResult("union", <<a, b>>, union(a, b), MaxChain)
        /\ UNCHANGED <<heap, thr, boxes, stack, returned>>

Iou ==
    \E a \in PairBoxes, b \in PairBoxes :
        /\ last' = [op |-> "iou", args |-> <<a, b>>, out |-> iou(a, b)]
        /\ UNCHANGED <<heap, thr, boxes, stack, returned>>

----------------------------------------------------------------------------
\* BBox methods called on BBox objects: the receiver and the argument are
\* objects of the store, the result is a new object

BoxIds == 1..Len(boxes)

\* the boxes that exist at the start
StoredArgs ==
    {<<I(100), I(200), I(300), I(400)>>, <<I(0), I(0), I(100), I(50)>>,
     <<I(150), I(0), I(150), I(250)>>}

\* two boxes exist
InitBoxes ==
    /\ heap = << >>
    /\ thr = [th \in Threads |-> IdleThread]
    /\ last = NoCall
    /\ boxes \in {<<BBox(a[1], a[2], a[3], a[4], "PDF"), BBox(b[1], b[2], b[3], b[4], "RASTER")>> :
                      a \in StoredArgs, b \in StoredArgs}
    /\ stack = << >>
    /\ returned = NoReturn

\* the method returns the BBox (or None) it has built; a BBox is a new object
Returns(op, self, args, result) ==
    /\ Len(boxes) < MaxBoxes
    /\ IF result = NoBox
       THEN /\ boxes' = boxes
            /\ last' = [op |-> op, self |-> self, args |-> args, out |-> None]
       ELSE /\ boxes' = Append(boxes, result)
            /\ last' = [op |-> op, self |-> self, args |-> args, out |-> Len(boxes) + 1]
    /\ UNCHANGED <<heap, thr, stack, returned>>

\* the receiver padded where it is and handed back
PadObj_in_place ==
    \E b \in BoxIds, padding \in Paddings :
        /\ Len(boxes) < MaxBoxes
        /\ boxes' = [boxes EXCEPT ![b] = pad(boxes[b], padding)]
        /\ last' = [op |-> "pad", self |-> b, args |-> <<padding>>, out |-> b]
        /\ UNCHANGED <<heap, thr, stack, returned>>

PadObj ==
    \E b \in BoxIds, padding \in Paddings :
        Returns("pad", b, <<padding>>, pad(boxes[b], padding))

PadXYObj ==
    \E b \in BoxIds, pad_x \in Paddings, pad_y \in Paddings :
        Returns("pad_xy", b, <<pad_x, pad_y>>, pad_xy(boxes[b], pad_x, pad_y))

ScaleObj ==
    \E b \in BoxIds, factor \in Factors :
        Returns("scale", b, <<factor>>, bbox_scale(boxes[b], factor))

UnionObj ==
    \E b \in BoxIds, other \in BoxIds :
        Returns("union", b, <<other>>, union(boxes[b], boxes[other]))

IntersectionObj ==
    \E b \in BoxIds, other \in BoxIds :
        Returns("intersection", b, <<other>>, intersection(boxes[b], boxes[other]))

ClipObj ==
    \E b \in BoxIds, bounds \in BoxIds :
        Returns("clip", b, <<bounds>>, clip(boxes[b], boxes[bounds]))

WithSpaceObj ==
    \E b \in BoxIds, space \in CoordinateSpace :
        Returns("with_space", b, <<space>>, with_space(boxes[b], space))

----------------------------------------------------------------------------
\* Reading order (ir/ordering.py).
\*
\* The coordinates of the blocks are float64 numbers of one binade
\* [2^e, 2^(e+1)), written as the whole number k of the float 2^e + k * ulp.
\* Differences and comparisons of two such floats are exact.  The sum of two
\* lies in the next binade, where the floats are 2 ulp apart, so the sum
\* rounds to nearest, ties to even, before it is halved.

\* the x1 or y1 of a box on the axis swept
lo(bbox, axis) == IF axis = "x" THEN bbox.x1 ELSE bbox.y1

\* the x2 or y2 of a box on the axis swept
hi(bbox, axis) == IF axis = "x" THEN bbox.x2 ELSE bbox.y2

\* the elements of a list
Range(s) == {s[k] : k \in 1..Len(s)}

\* Python's None where a cut or an edge is expected (coordinates are >= 0)
NoCut == -1

\* Python's order of two keys, each a tuple of one or two numbers
KeyBefore(k1, k2) ==
    \/ k1[1] < k2[1]
    \/ (k1[1] = k2[1] /\ Len(k1) > 1 /\ k1[2] < k2[2])

\* list.sort / sorted: the elements of s in the order of their keys (key[i]
\* is the key of s[i]), elements of equal keys in the order they had
StableSort(s, key) ==
    LET n == Len(s)
        rank(i) == Cardinality({j \in 1..n : \/ KeyBefore(key[j], key[i])
                                             \/ (~KeyBefore(key[i], key[j]) /\ j < i)})
    IN  [p \in 1..n |-> s[CHOOSE i \in 1..n : rank(i) = p - 1]]

\* the elements of s from the k-th on that are in keep, in their order
RECURSIVE Filter(_, _, _)
Filter(s, k, keep) ==
    IF k > Len(s) THEN << >>
    ELSE (IF s[k] \in keep THEN <<s[k]>> ELSE << >>) \o Filter(s, k + 1, keep)

\* (last_end + x) / 2 in float64: an odd sum of ulps is a tie and rounds to
\* the neighbour whose half is even
Midpoint(last_end, x) ==
    LET sum == last_end + x
        down == (sum - 1) \div 2
    IN  IF sum % 2 = 0 THEN sum \div 2
        ELSE IF down % 2 = 0 THEN down ELSE down + 1

\* events of the items on an axis: (edge, "start") and (edge, "end") per item
RECURSIVE Events(_, _, _)
Events(items, k, axis) ==
    IF k > Len(items) THEN << >>
    ELSE << <<lo(items[k][2], axis), "start">>, <<hi(items[k][2], axis), "end">> >>
             \o Events(items, k + 1, axis)

\* key=lambda e: e[0]
EventKeys(events) == [k \in 1..Len(events) |-> <<events[k][1]>>]

\* the sweep over the sorted events from the k-th on; st holds the locals
\* active_count, last_end, best_gap and best_gap_size
RECURSIVE Sweep(_, _, _, _)
Sweep(events, k, min_gap, st) ==
    IF k > Len(events) THEN st.best_gap
    ELSE LET x == events[k][1]
         IN  IF events[k][2] = "end"
             THEN LET count == st.active_count - 1
                  IN  Sweep(events, k + 1, min_gap,
                            [st EXCEPT !.active_count = count,
                                       !.last_end = IF count = 0 THEN x ELSE @])
             ELSE LET gap_size == x - st.last_end
                      better == /\ st.last_end # NoCut
                                /\ st.active_count = 0
                                /\ gap_size >= min_gap
                                /\ gap_size > st.best_gap_size
                  IN  Sweep(events, k + 1, min_gap,
                            [st EXCEPT !.active_count = @ + 1,
                                       !.best_gap = IF better THEN Midpoint(st.last_end, x)
                                                    ELSE @,
                                       !.best_gap_size = IF better THEN gap_size ELSE @])

\* find_cut that takes the widest gap whatever the threshold
find_cut_no_threshold(items, min_gap, axis) ==
    IF Len(items) < 2 THEN NoCut
    ELSE Sweep(StableSort(Events(items, 1, axis), EventKeys(Events(items, 1, axis))),
               1, 0,
               [active_count |-> 0, last_end |-> NoCut, best_gap |-> NoCut,
                best_gap_size |-> 0])

\* the cut on an axis, or NoCut
find_cut(items, min_gap, axis) ==
    IF Len(items) < 2 THEN NoCut
    ELSE Sweep(StableSort(Events(items, 1, axis), EventKeys(Events(items, 1, axis))),
               1, min_gap,
               [active_count |-> 0, last_end |-> NoCut, best_gap |-> NoCut,
                best_gap_size |-> 0])

_find_vertical_cut(items, min_gap) == find_cut(items, min_gap, "x")

_find_horizontal_cut(items, min_gap) == find_cut(items, min_gap, "y")

\* key=lambda x: (x[1].y1, x[1].x1)
YXKeys(items) == [k \in 1..Len(items) |-> <<items[k][2].y1, items[k][2].x1>>]

\* sorted(items, key=lambda x: (x[1].y1, x[1].x1))
sorted_yx(items) == StableSort(items, YXKeys(items))

\* the three lists a cut on an axis splits the items into
before_cut(items, cut, axis) == Filter(items, 1, {i \in Range(items) : hi(i[2], axis) <= cut})

after_cut(items, cut, axis) == Filter(items, 1, {i \in Range(items) : lo(i[2], axis) >= cut})

spanning_cut(items, cut, axis) ==
    Filter(items, 1, {i \in Range(items) : lo(i[2], axis) < cut /\ cut < hi(i[2], axis)})

\* items = [(block, bbox_getter(block)) for block in blocks]
items_of(blocks) == [k \in 1..Len(blocks) |-> <<blocks[k], blocks[k].bbox>>]

\* [item[0] for item in items]
blocks_of(items) == [k \in 1..Len(items) |-> items[k][1]]

\* key=lambda x: x[1].y1
Y1Keys(items) == [k \in 1..Len(items) |-> <<items[k][2].y1>>]

\* key=lambda x: x[1].x1
X1Keys(items) == [k \in 1..Len(items) |-> <<items[k][2].x1>>]

RECURSIVE SumY1(_, _)
SumY1(group, k) == IF k > Len(group) THEN 0 ELSE group[k][2].y1 + SumY1(group, k + 1)

\* abs(item[1].y1 - group_y) <= y_tolerance, group_y the mean y1 of the group
\* (the mean taken exactly)
SameLine(item, current_group, y_tolerance) ==
    LET n == Len(current_group)
        d == n * item[2].y1 - SumY1(current_group, 1)
    IN  (IF d < 0 THEN -d ELSE d) <= y_tolerance * n

\* the loop of sort_blocks_simple over items[1:], from the k-th item on
RECURSIVE GroupLines(_, _, _, _, _)
GroupLines(items, k, current_group, result, y_tolerance) ==
    IF k > Len(items) THEN result \o StableSort(current_group, X1Keys(current_group))
    ELSE IF SameLine(items[k], current_group, y_tolerance)
         THEN GroupLines(items, k + 1, Append(current_group, items[k]), result, y_tolerance)
         ELSE GroupLines(items, k + 1, <<items[k]>>,
                         result \o StableSort(current_group, X1Keys(current_group)), y_tolerance)

sort_blocks_simple(blocks, y_tolerance) ==
    IF blocks = << >> THEN blocks
    ELSE LET items == StableSort(items_of(blocks), Y1Keys(items_of(blocks)))
         IN  blocks_of(GroupLines(items, 2, <<items[1]>>, << >>, y_tolerance))

\* the boxes of the blocks, (x1, y1, x2, y2): a left column A over B and a
\* right column E, a line D across both, a box C of no height at the foot of
\* the first row, and G one ulp below C
BlockBoxes ==
    {[x1 |-> 0, y1 |-> 0, x2 |-> 2, y2 |-> 4], [x1 |-> 0, y1 |-> 5, x2 |-> 2, y2 |-> 6],
     [x1 |-> 6, y1 |-> 0, x2 |-> 8, y2 |-> 4], [x1 |-> 0, y1 |-> 0, x2 |-> 8, y2 |-> 4],
     [x1 |-> 6, y1 |-> 4, x2 |-> 8, y2 |-> 4], [x1 |-> 6, y1 |-> 5, x2 |-> 8, y2 |-> 6]}

\* the lists of n blocks of different boxes; a block is named by its place
BlockListsOf(n) ==
    {[k \in 1..n |-> [name |-> k, bbox |-> f[k]]] :
        f \in {g \in [1..n -> BlockBoxes] : \A i, j \in 1..n : i # j => g[i] # g[j]}}

BlockLists == UNION {BlockListsOf(n) : n \in 0..MaxBlocks}

\* min_col_gap and min_row_gap, in ulps
ColGaps == {0, 4}

RowGaps == {0, 2}

\* y_tolerance, in ulps
Tolerances == {0, 1}

\* a frame of _xy_cut_recursive(items, min_col_gap, min_row_gap) at its start
Frame(items, min_col_gap, min_row_gap) ==
    [pc |-> "L83", items |-> items, min_col_gap |-> min_col_gap,
     min_row_gap |-> min_row_gap, cut |-> NoCut, first |-> << >>, second |-> << >>,
     spanning |-> << >>, first_sorted |-> << >>]

\* the innermost frame
Top == stack[Len(stack)]

\* the call of the outermost frame: its arguments
XYCutCall ==
    [op |-> "sort_blocks_xy_cut", blocks |-> blocks_of(stack[1].items),
     min_col_gap |-> stack[1].min_col_gap, min_row_gap |-> stack[1].min_row_gap]

\* sort_blocks_xy_cut(blocks, min_col_gap, min_row_gap), lines 65-72
SortBlocksXYCut ==
    \E blocks \in BlockLists, min_col_gap \in ColGaps, min_row_gap \in RowGaps :
        /\ stack = << >>
        /\ last = NoCall
        /\ IF Len(blocks) <= 1
           THEN /\ last' = [op |-> "sort_blocks_xy_cut", blocks |-> blocks,
                            min_col_gap |-> min_col_gap, min_row_gap |-> min_row_gap,
                            out |-> blocks]
                /\ stack' = stack
           ELSE /\ last' = NoCall
                /\ stack' = <<Frame(items_of(blocks), min_col_gap, min_row_gap)>>
        /\ returned' = NoReturn
        /\ UNCHANGED <<heap, thr, boxes>>

\* what the caller holds while a call runs: nothing, or under the name first
\* how the call before ended
Before == IF last = NoCall THEN << >> ELSE [first |-> last]

\* return value: to the calling frame, or from the outermost frame through
\* line 74 to the caller of sort_blocks_xy_cut
Return(value) ==
    /\ IF Len(stack) = 1
       THEN /\ last' = XYCutCall @@ [out |-> blocks_of(value)] @@ Before
            /\ returned' = NoReturn
       ELSE /\ last' = last
            /\ returned' = [set |-> TRUE, value |-> value]
    /\ stack' = SubSeq(stack, 1, Len(stack) - 1)
    /\ UNCHANGED <<heap, thr, boxes>>

\* _xy_cut_recursive(items, ...) called from the innermost frame, which moves
\* to pc; RecursionError unwinds every frame when the stack is full
Recurse(frame, items) ==
    /\ IF Len(stack) >= MaxDepth
       THEN /\ stack' = << >>
            /\ last' = XYCutCall @@ [raised |-> "RecursionError"] @@ Before
       ELSE /\ stack' = Append([stack EXCEPT ![Len(stack)] = frame],
                               Frame(items, frame.min_col_gap, frame.min_row_gap))
            /\ last' = last
    /\ returned' = NoReturn
    /\ UNCHANGED <<heap, thr, boxes>>

\* lines 83-84: if len(items) <= 1: return items
BaseCase ==
    /\ stack # << >>
    /\ Top.pc = "L83"
    /\ Len(Top.items) <= 1
    /\ Return(Top.items)

\* lines 87-96: a vertical cut is found, the items are split and the left
\* ones sorted first
VerticalCut ==
    /\ stack # << >>
    /\ Top.pc = "L83"
    /\ Len(Top.items) > 1
    /\ LET v_cut == _find_vertical_cut(Top.items, Top.min_col_gap)
       IN  /\ v_cut # NoCut
           /\ Recurse([Top EXCEPT !.pc = "L96", !.cut = v_cut,
                                   !.first = before_cut(Top.items, v_cut, "x"),
                                   !.second = after_cut(Top.items, v_cut, "x"),
                                   !.spanning = spanning_cut(Top.items, v_cut, "x")],
                       before_cut(Top.items, v_cut, "x"))

\* line 97: the right ones are sorted
RecurseRight ==
    /\ stack # << >>
    /\ Top.pc = "L96"
    /\ returned.set
    /\ Recurse([Top EXCEPT !.pc = "L97", !.first_sorted = returned.value], Top.second)

\* lines 98-100: return left_sorted + spanning_sorted + right_sorted
ReturnVertical ==
    /\ stack # << >>
    /\ Top.pc = "L97"
    /\ returned.set
    /\ Return(Top.first_sorted \o sorted_yx(Top.spanning) \o returned.value)

\* lines 103-112: no vertical cut, a horizontal cut is found, the items are
\* split and the top ones sorted first
HorizontalCut ==
    /\ stack # << >>
    /\ Top.pc = "L83"
    /\ Len(Top.items) > 1
    /\ _find_vertical_cut(Top.items, Top.min_col_gap) = NoCut
    /\ LET h_cut == _find_horizontal_cut(Top.items, Top.min_row_gap)
       IN  /\ h_cut # NoCut
           /\ Recurse([Top EXCEPT !.pc = "L112", !.cut = h_cut,
                                   !.first = before_cut(Top.items, h_cut, "y"),
                                   !.second = after_cut(Top.items, h_cut, "y"),
                                   !.spanning = spanning_cut(Top.items, h_cut, "y")],
                       before_cut(Top.items, h_cut, "y"))

\* line 113: the bottom ones are sorted
RecurseBottom ==
    /\ stack # << >>
    /\ Top.pc = "L112"
    /\ returned.set
    /\ Recurse([Top EXCEPT !.pc = "L113", !.first_sorted = returned.value], Top.second)

\* lines 114-116: return top_sorted + spanning_sorted + bottom_sorted
ReturnHorizontal ==
    /\ stack # << >>
    /\ Top.pc = "L113"
    /\ returned.set
    /\ Return(Top.first_sorted \o sorted_yx(Top.spanning) \o returned.value)

\* line 119: no cut, return the items sorted by (y1, x1)
Flat ==
    /\ stack # << >>
    /\ Top.pc = "L83"
    /\ Len(Top.items) > 1
    /\ _find_vertical_cut(Top.items, Top.min_col_gap) = NoCut
    /\ _find_horizontal_cut(Top.items, Top.min_row_gap) = NoCut
    /\ Return(sorted_yx(Top.items))

\* the boxes the cut functions are called on: on each axis extents 0-1, 2-3,
\* 5-6 and 8-9 (gaps of 1, 2 and 2), one over all of them and one of no width
CutBoxes ==
    {[x1 |-> 0, x2 |-> 1, y1 |-> 5, y2 |-> 6], [x1 |-> 2, x2 |-> 3, y1 |-> 0, y2 |-> 1],
     [x1 |-> 5, x2 |-> 6, y1 |-> 2, y2 |-> 3], [x1 |-> 8, x2 |-> 9, y1 |-> 8, y2 |-> 9],
     [x1 |-> 0, x2 |-> 9, y1 |-> 3, y2 |-> 3], [x1 |-> 3, x2 |-> 3, y1 |-> 0, y2 |-> 9]}

\* the lists of up to MaxBlocks items of different boxes
CutLists ==
    UNION {{items_of([k \in 1..n |-> [name |-> k, bbox |-> f[k]]]) :
               f \in {g \in [1..n -> CutBoxes] : \A i, j \in 1..n : i # j => g[i] # g[j]}} :
           n \in 0..MaxBlocks}

\* min_gap, in ulps
MinGaps == {0, 2, 3}

\* _find_vertical_cut(items, min_gap)
FindVerticalCut ==
    \E items \in CutLists, min_gap \in MinGaps :
        /\ last = NoCall
        /\ last' = [op |-> "_find_cut", axis |-> "x", items |-> items, min_gap |-> min_gap,
                    out |-> _find_vertical_cut(items, min_gap)]
        /\ UNCHANGED <<heap, thr, boxes, stack, returned>>

\* _find_horizontal_cut(items, min_gap)
FindHorizontalCut ==
    \E items \in CutLists, min_gap \in MinGaps :
        /\ last = NoCall
        /\ last' = [op |-> "_find_cut", axis |-> "y", items |-> items, min_gap |-> min_gap,
                    out |-> _find_horizontal_cut(items, min_gap)]
        /\ UNCHANGED <<heap, thr, boxes, stack, returned>>

\* the orders a list can be given in
Reorderings(s) ==
    {[k \in 1..Len(s) |-> s[f[k]]] :
        f \in {g \in [1..Len(s) -> 1..Len(s)] : \A i, j \in 1..Len(s) : i # j => g[i] # g[j]}}

\* sort_blocks_xy_cut called again with the same thresholds on the blocks of
\* the call before, given in another order; the caller keeps how the call
\* before ended
SortBlocksXYCutPermuted ==
    /\ stack = << >>
    /\ last.op = "sort_blocks_xy_cut"
    /\ "first" \notin DOMAIN last
    /\ Len(last.blocks) \in 2..MaxPermuted
    /\ \E blocks \in Reorderings(last.blocks) \ {last.blocks} :
           stack' = <<Frame(items_of(blocks), last.min_col_gap, last.min_row_gap)>>
    /\ returned' = NoReturn
    /\ UNCHANGED <<heap, thr, boxes, last>>

\* sort_blocks_simple(blocks, y_tolerance=...)
SortBlocksSimple ==
    \E blocks \in BlockLists, y_tolerance \in Tolerances :
        /\ stack = << >>
        /\ last = NoCall
        /\ last' = [op |-> "sort_blocks_simple", blocks |-> blocks,
                    y_tolerance |-> y_tolerance,
                    out |-> sort_blocks_simple(blocks, y_tolerance)]
        /\ UNCHANGED <<heap, thr, boxes, stack, returned>>

----------------------------------------------------------------------------
\* Tables (ir/models.py).  A str is the sequence of its characters.

\* sep.join(strs): the strings from the k-th on with sep between them
RECURSIVE join(_, _, _)
join(sep, strs, k) ==
    IF k > Len(strs) THEN << >>
    ELSE IF k = Len(strs) THEN strs[k]
    ELSE strs[k] \o sep \o join(sep, strs, k + 1)

\* TableCell(text=..., row_span=..., col_span=..., is_header=...)
TableCell(text, row_span, col_span, is_header) ==
    [text |-> text, row_span |-> row_span, col_span |-> col_span, is_header |-> is_header]

\* TableBlock.text that leaves out the cells a merged cell covers
TableBlock_text_merged(self) ==
    join(<<"\n">>, [r \in 1..Len(self.rows) |->
                       join(<<"\t">>, [c \in 1..Len(self.rows[r]) |->
                                          IF c > 1 /\ self.rows[r][c - 1].col_span > 1
                                          THEN << >> ELSE self.rows[r][c].text], 1)], 1)

\* TableBlock.text
TableBlock_text(self) ==
    join(<<"\n">>, [r \in 1..Len(self.rows) |->
                       join(<<"\t">>, [c \in 1..Len(self.rows[r]) |-> self.rows[r][c].text], 1)], 1)

\* the rows tables are made of: no cell, one cell, A B, C D, A B with merged
\* and header cells, and an empty text beside one of two characters
RowArgs ==
    {<< >>,
     <<TableCell(<<"A">>, 1, 1, FALSE)>>,
     <<TableCell(<<"A">>, 1, 1, FALSE), TableCell(<<"B">>, 1, 1, FALSE)>>,
     <<TableCell(<<"C">>, 1, 1, FALSE), TableCell(<<"D">>, 1, 1, FALSE)>>,
     <<TableCell(<<"A">>, 2, 2, TRUE), TableCell(<<"B">>, 1, 1, TRUE)>>,
     <<TableCell(<< >>, 1, 1, FALSE), TableCell(<<"B", "C">>, 1, 2, FALSE)>>}

\* TableBlock(bbox=..., rows=...)
Tables == UNION {{[rows |-> rows] : rows \in [1..n -> RowArgs]} : n \in 0..MaxRows}

\* table.text
TableText ==
    \E table \in Tables :
        /\ last = NoCall
        /\ last' = [op |-> "TableBlock.text", self |-> table, out |-> TableBlock_text(table)]
        /\ UNCHANGED <<heap, thr, boxes, stack, returned>>

----------------------------------------------------------------------------
\* Specifications

\* two transforms are composed, and the results composed further
NextAlg == Compose \/ Matmul

SpecAlg == InitPair /\ [][NextAlg]_vars

\* a chain is applied to points and to lists of points
NextApply == ApplyPoint \/ ApplyPoints

SpecApply == InitChain /\ [][NextApply]_vars

\* one thread of control inverts a chain and composes it with its inverses
NextSeq ==
    \/ Compose
    \/ CallInvert(1)
    \/ CallRoundTripError(1)
    \/ InvertStep(1)

SpecSeq == InitChain /\ [][NextSeq]_vars

\* several threads call invert() on one transform and on the inverses returned
NextConc == \E th \in Threads : CallInvert(th) \/ InvertStep(th)

SpecConc == InitShared /\ [][NextConc]_vars

\* BBox values are built and operated on; one transform maps them
NextBBox ==
    \/ BBoxNew
    \/ FromList
    \/ FromXYWH
    \/ Pad
    \/ PadXY
    \/ BBoxScale
    \/ Union
    \/ Intersection
    \/ Clip
    \/ WithSpace
    \/ ApplyBBoxCur

SpecBBox == InitOne /\ [][NextBBox]_vars

\* transforms are built from arrays directly
NextCtor == Construct \/ Compose \/ ApplyPoint

SpecCtor == Init /\ [][NextCtor]_vars

\* two boxes are tested, intersected, united and compared
NextPair == Intersects \/ IntersectionPair \/ UnionPair \/ Iou

SpecPair == Init /\ [][NextPair]_vars

\* boxes are built from lists and transforms from arrays, well-formed or not
NextErr == FromList \/ Construct

SpecErr == Init /\ [][NextErr]_vars

\* methods are called on stored boxes and on the boxes they return
NextFrame ==
    \/ PadObj
    \/ PadXYObj
    \/ ScaleObj
    \/ UnionObj
    \/ IntersectionObj
    \/ ClipObj
    \/ WithSpaceObj

SpecFrame == InitBoxes /\ [][NextFrame]_vars

\* a list of blocks is put into reading order by one of the two functions;
\* they are pure, so one call is followed from each start
NextOrder ==
    \/ SortBlocksXYCut
    \/ BaseCase
    \/ VerticalCut
    \/ RecurseRight
    \/ ReturnVertical
    \/ HorizontalCut
    \/ RecurseBottom
    \/ ReturnHorizontal
    \/ Flat
    \/ SortBlocksSimple

SpecOrder == Init /\ [][NextOrder]_vars

\* a list of blocks is put into reading order by sort_blocks_xy_cut, and then
\* the same blocks given in another order
NextPerm ==
    \/ SortBlocksXYCut
    \/ SortBlocksXYCutPermuted
    \/ BaseCase
    \/ VerticalCut
    \/ RecurseRight
    \/ ReturnVertical
    \/ HorizontalCut
    \/ RecurseBottom
    \/ ReturnHorizontal
    \/ Flat

SpecPerm == Init /\ [][NextPerm]_vars

\* a chain is inverted, a box mapped by the chain and back by the inverse
NextTrip ==
    \/ CallInvert(1)
    \/ InvertStep(1)
    \/ ApplyBBoxForward
    \/ ApplyBBoxBack

SpecTrip == InitChain /\ [][NextTrip]_vars

\* rotations are built and applied to points
NextRot == Rotate \/ ApplyPointRotated

SpecRot == Init /\ [][NextRot]_vars

\* a cut is looked for in a list of items; the functions are pure, so one
\* call is followed from each start
NextCut == FindVerticalCut \/ FindHorizontalCut

SpecCut == Init /\ [][NextCut]_vars

\* the text of a table is read; the property is pure, so one call is
\* followed from each start
NextTable == TableText

SpecTable == Init /\ [][NextTable]_vars

----------------------------------------------------------------------------
\* Properties

Affine(M) == M[3] = <<I(0), I(0), I(1)>>

Normalized(b) == RLe(b.x1, b.x2) /\ RLe(b.y1, b.y2)

Scale2 == scale(I(2), Omitted)

Translate50 == translate(I(50), I(50))

\* C1: a.compose(b) and a @ b have the matrix b @ a and map every point p to
\* b.apply_point(a.apply_point(p)): self first, then other; scale(2) then
\* translate(50, 50) maps (100, 100) to (250, 250), the reverse to (300, 300).
C1_ComposeAppliesSelfFirst ==
    last.op \in {"compose", "matmul"} =>
        LET A == heap[last.self].matrix
            B == heap[last.other].matrix
            C == heap[last.out].matrix
        IN  /\ C = MatMul(B, A)
            /\ \A p \in Pts :
                   LET q == apply_point(A, p[1], p[2])
                   IN  apply_point(C, p[1], p[2]) = apply_point(B, q[1], q[2])
            /\ (A = Scale2 /\ B = Translate50) =>
                   apply_point(C, I(100), I(100)) = <<I(250), I(250)>>
            /\ (A = Translate50 /\ B = Scale2) =>
                   apply_point(C, I(100), I(100)) = <<I(300), I(300)>>

C1_Witness ==
    /\ last.op = "compose"
    /\ heap[last.self].matrix = Scale2
    /\ heap[last.other].matrix = Translate50
    /\ apply_point(heap[last.out].matrix, I(100), I(100)) = <<I(250), I(250)>>

\* C2: once t.invert() has returned, the inverse maps t.apply_point(p) back to p
\* for every point p, round_trip_error is 0, and t.compose(t.invert()) and
\* t.invert().compose(t) are the identity.
C2_RoundTrip ==
    /\ \A th \in Threads :
           thr[th].pc = "done" =>
               LET T == heap[thr[th].self].matrix
                   Ti == heap[thr[th].ret].matrix
               IN  /\ \A p \in Pts :
                          LET q == apply_point(T, p[1], p[2])
                          IN  apply_point(Ti, q[1], q[2]) = p
                   /\ thr[th].op = "round_trip_error" => thr[th].out = I(0)
                   /\ compose(T, Ti) = eye3
                   /\ compose(Ti, T) = eye3
    /\ (last.op = "compose" /\ heap[last.self].inverse = last.other) =>
           heap[last.out].matrix = eye3

\* a chain that scales and translates has gone there and back
C2_Witness ==
    \E th \in Threads :
        /\ thr[th].pc = "done"
        /\ thr[th].op = "round_trip_error"
        /\ heap[thr[th].self].matrix = compose(Scale2, Translate50)
        /\ thr[th].pt = <<I(100), I(100)>>
        /\ thr[th].out = I(0)

\* in a call of thread th, the cache of its receiver is set
CacheHit(th) == thr[th].pc = "L171" /\ heap[thr[th].self].inverse # None

\* C3: with one thread, once invert() has returned, the receiver's cache holds
\* the returned object and that object's cache holds the receiver; a cache once
\* set is never replaced, and a call that finds it set allocates nothing and
\* goes straight to returning it. So t.invert() is t.invert() and
\* t.invert().invert() is t.
C3_InverseMemoized ==
    /\ [](Quiescent =>
            /\ \A t \in Objs :
                   heap[t].inverse # None => heap[heap[t].inverse].inverse = t
            /\ \A th \in Threads :
                   thr[th].pc = "done" => thr[th].ret = heap[thr[th].self].inverse)
    /\ [][/\ \A t \in Objs : heap[t].inverse # None => heap'[t].inverse = heap[t].inverse
          /\ \A th \in Threads :
                 (CacheHit(th) /\ thr'[th] # thr[th]) =>
                     (heap' = heap /\ thr'[th].pc = "L175")]_vars

\* t.invert().invert() has returned t, and only t and its inverse exist
C3_Witness ==
    /\ Len(heap) = 2
    /\ thr[1].pc = "done"
    /\ thr[1].op = "invert"
    /\ thr[1].self = 2
    /\ thr[1].ret = 1
    /\ heap[1].inverse = 2

\* thread th is in a call on a transform with a singular matrix
OnSingular(th) == thr[th].self # None /\ Singular(heap[thr[th].self].matrix)

\* C4: a call of invert() or round_trip_error() on a transform with a singular
\* matrix ends raised, with no object returned and no distance; the cache of a
\* singular transform is empty in every state and no step of such a call
\* changes the heap, so a later call fails the same way.
C4_SingularRaises ==
    /\ [](/\ \A t \in Objs : Singular(heap[t].matrix) => heap[t].inverse = None
          /\ \A th \in Threads :
                 /\ OnSingular(th) => thr[th].pc \in {"L171", "L172", "raised"}
                 /\ thr[th].pc = "raised" =>
                        (OnSingular(th) /\ thr[th].ret = None /\ thr[th].out = << >>))
    /\ [][\A th \in Threads :
              (OnSingular(th) /\ thr'[th] # thr[th] /\ thr[th].pc \in {"L171", "L172"}) =>
                  heap' = heap]_vars

C4_Witness ==
    /\ thr[1].pc = "raised"
    /\ thr[1].op = "round_trip_error"
    /\ heap[thr[1].self].inverse = None
    /\ heap[thr[1].self].matrix = scale(I(0), Omitted)

\* C5: under every interleaving of the threads' steps, a call of invert() that
\* has returned has returned a transform whose matrix is the inverse of the
\* receiver's matrix.
C5_ConcurrentInverseCorrect ==
    \A th \in Threads :
        thr[th].pc = "done" =>
            /\ ~Singular(heap[thr[th].self].matrix)
            /\ heap[thr[th].ret].matrix = linalg_inv(heap[thr[th].self].matrix)

\* two threads have inverted the same transform and hold different objects
C5_Witness ==
    /\ thr[1].pc = "done"
    /\ thr[2].pc = "done"
    /\ thr[1].self = 1
    /\ thr[2].self = 1
    /\ thr[1].ret # thr[2].ret

\* C6: every transform built by the named constructors, compose and invert has
\* the bottom row [0, 0, 1].
C6_BottomRowAffine == \A t \in Objs : Affine(heap[t].matrix)

\* an inverse and a composition with it exist
C6_Witness ==
    /\ Len(heap) = 3
    /\ heap[1].inverse = 2
    /\ last.op = "compose"
    /\ last.other = 2
    /\ heap[1].matrix[1][3] # I(0)

\* C7: a 3x3 matrix whose bottom row is not [0, 0, 1] is rejected by the
\* constructor, and no transform with such a matrix exists.
C7_NonAffineRejected ==
    /\ \A t \in Objs : Affine(heap[t].matrix)
    /\ (last.op = "TransformChain" /\ shape(last.matrix) = <<3, 3>>
            /\ ~Affine(last.matrix)) => "raised" \in DOMAIN last

\* the corners of box b as transform M maps them one by one
MappedCorners(M, b) == {apply_point(M, c[1], c[2]) : c \in {corners(b)[k] : k \in 1..4}}

\* C8: apply_bbox returns the box whose x1, y1 are the least and x2, y2 the
\* greatest coordinates of the four transformed corners, tagged with
\* target_space; it is normalized and contains every transformed corner;
\* rotate(90) maps (0, 0, 100, 50) to (-50, 0, 0, 100).
C8_ApplyBBoxEnclosesCorners ==
    last.op = "apply_bbox" =>
        LET M == heap[last.self].matrix
            b == last.args[1]
            cs == MappedCorners(M, b)
            r == last.out
        IN  /\ \E c \in cs : r.x1 = c[1]
            /\ \E c \in cs : r.y1 = c[2]
            /\ \E c \in cs : r.x2 = c[1]
            /\ \E c \in cs : r.y2 = c[2]
            /\ \A c \in cs : RLe(r.x1, c[1]) /\ RLe(c[1], r.x2)
            /\ \A c \in cs : RLe(r.y1, c[2]) /\ RLe(c[2], r.y2)
            /\ \A c \in cs : contains_point(r, c[1], c[2])
            /\ r.space = last.args[2]
            /\ Normalized(r)
            /\ (M = rotate(90, <<I(0), I(0)>>)
                    /\ <<b.x1, b.y1, b.x2, b.y2>> = <<I(0), I(0), I(100), I(50)>>) =>
                   <<r.x1, r.y1, r.x2, r.y2>> = <<I(-50), I(0), I(0), I(100)>>

\* a box tagged PDF has gone through rotate(90) into RASTER
C8_Witness ==
    /\ last.op = "apply_bbox"
    /\ heap[last.self].matrix = rotate(90, <<I(0), I(0)>>)
    /\ last.args[1] = BBox(I(0), I(0), I(100), I(50), "PDF")
    /\ last.args[2] = "RASTER"
    /\ last.out = BBox(I(-50), I(0), I(0), I(100), "RASTER")

\* C9: apply_points returns, for the empty list and for every other, the list
\* of apply_point of each element, in order.
C9_ApplyPointsIsMap ==
    last.op = "apply_points" =>
        /\ Len(last.out) = Len(last.points)
        /\ \A k \in 1..Len(last.points) :
               last.out[k] = apply_point(heap[last.self].matrix,
                                         last.points[k][1], last.points[k][2])

\* two different points have gone through a matrix that is not symmetric
C9_Witness ==
    /\ last.op = "apply_points"
    /\ Len(last.points) = 2
    /\ last.points[1] # last.points[2]
    /\ heap[last.self].matrix[1][2] # heap[last.self].matrix[2][1]
    /\ last.out[1] # last.out[2]

\* C10: every box an operation returns has x1 <= x2 and y1 <= y2;
\* BBox(300, 400, 100, 200) is the box (100, 200, 300, 400).
C10_BoxesNormalized ==
    /\ HasBox => Normalized(last.out)
    /\ (last.op = "BBox" /\ last.args[1] = <<I(300), I(400), I(100), I(200)>>) =>
           <<last.out.x1, last.out.y1, last.out.x2, last.out.y2>>
               = <<I(100), I(200), I(300), I(400)>>

\* a negative padding has turned a box inside out and the result is normalized
C10_Witness ==
    /\ last.op = "pad"
    /\ last.args[2] = I(-150)
    /\ RLt(RAdd(last.args[1].x2, last.args[2]), RSub(last.args[1].x1, last.args[2]))
    /\ RLt(last.out.x1, last.out.x2)

\* a and b share an edge line: one ends where the other begins
Touching(a, b) == a.x2 = b.x1 \/ b.x2 = a.x1 \/ a.y2 = b.y1 \/ b.y2 = a.y1

\* a and b have no point in common: apart on the x axis or on the y axis
Disjoint(a, b) ==
    \/ RLt(RMin(a.x2, b.x2), RMax(a.x1, b.x1))
    \/ RLt(RMin(a.y2, b.y2), RMax(a.y1, b.y1))

\* the area a and b have in common
OverlapArea(a, b) ==
    RMul(RMax(I(0), RSub(RMin(a.x2, b.x2), RMax(a.x1, b.x1))),
         RMax(I(0), RSub(RMin(a.y2, b.y2), RMax(a.y1, b.y1))))

\* C11: two boxes that touch along an edge do not intersect.
C11_TouchingDoNotIntersect ==
    (last.op = "intersects" /\ Touching(last.args[1], last.args[2])) => last.out = FALSE

\* C12: for two boxes with no point in common, intersects is false (either
\* way round), intersection is None and iou is 0.
C12_DisjointNoIntersection ==
    /\ (last.op = "intersects" /\ Disjoint(last.args[1], last.args[2])) => last.out = FALSE
    /\ (last.op = "intersects" /\ Disjoint(last.args[2], last.args[1])) => last.out = FALSE
    /\ (last.op = "intersection" /\ Disjoint(last.args[1], last.args[2])) => last.out = NoBox
    /\ (last.op = "iou" /\ Disjoint(last.args[1], last.args[2])) => last.out = I(0)

\* iou of two boxes apart on the y axis alone
C12_Witness ==
    /\ last.op = "iou"
    /\ last.args[1].x1 = last.args[2].x1
    /\ last.args[1].x2 = last.args[2].x2
    /\ RLt(last.args[1].y2, last.args[2].y1)
    /\ last.out = I(0)

\* C13: a.union(a) and a.intersection(a) are a, coordinates and space.
C13_SelfUnionIntersection ==
    /\ (last.op = "union" /\ last.args[1] = last.args[2]) => last.out = last.args[1]
    /\ (last.op = "intersection" /\ last.args[1] = last.args[2]) => last.out = last.args[1]

\* a box with no area intersected with itself
C13_Witness ==
    /\ last.op = "intersection"
    /\ last.args[1] = last.args[2]
    /\ area(last.args[1]) = I(0)
    /\ last.args[1].space = "RASTER"
    /\ last.out = last.args[1]

\* C14 as stated: a.iou(a) is 1 for every box a.
C14_IouSelfIsOne ==
    (last.op = "iou" /\ last.args[1] = last.args[2]) => last.out = I(1)

\* C14 amended: a.iou(a) is 1 for every box a of positive area, and 0 for a
\* box of zero width or zero height.
C14_IouSelfPositiveArea ==
    (last.op = "iou" /\ last.args[1] = last.args[2]) =>
        last.out = IF RLt(I(0), area(last.args[1])) THEN I(1) ELSE I(0)

C14_Witness ==
    /\ last.op = "iou"
    /\ last.args[1] = last.args[2]
    /\ RLt(I(0), area(last.args[1]))
    /\ last.out = I(1)

\* C15: a.iou(b) is the common area over area(a) + area(b) - common area when
\* the boxes have a point in common and that denominator is positive, and 0
\* otherwise; it lies between 0 and 1.
C15_IouValue ==
    last.op = "iou" =>
        LET a == last.args[1]
            b == last.args[2]
            denom == RSub(RAdd(area(a), area(b)), OverlapArea(a, b))
        IN  /\ last.out = IF ~Disjoint(a, b) /\ RLt(I(0), denom)
                           THEN RDiv(OverlapArea(a, b), denom)
                           ELSE I(0)
            /\ RLe(I(0), last.out)
            /\ RLe(last.out, I(1))

\* boxes that overlap in part: 2500 / 17500
C15_Witness ==
    /\ last.op = "iou"
    /\ last.args[1] # last.args[2]
    /\ last.out = Rat(1, 7)

\* C16: a.intersection(b) is None exactly when a.intersects(b) is false;
\* otherwise it is (max x1, max y1, min x2, min y2) with the space of a, and
\* both a and b contain it.
C16_IntersectionBox ==
    last.op = "intersection" =>
        LET a == last.args[1]
            b == last.args[2]
        IN  /\ (last.out = NoBox) <=> ~intersects(a, b)
            /\ last.out # NoBox =>
                   /\ <<last.out.x1, last.out.y1, last.out.x2, last.out.y2>>
                          = <<RMax(a.x1, b.x1), RMax(a.y1, b.y1),
                              RMin(a.x2, b.x2), RMin(a.y2, b.y2)>>
                   /\ last.out.space = a.space
                   /\ contains_bbox(a, last.out)
                   /\ contains_bbox(b, last.out)

\* two overlapping boxes of different spaces
C16_Witness ==
    /\ last.op = "intersection"
    /\ last.args[1].space = "PDF"
    /\ last.args[2].space = "RASTER"
    /\ last.out # NoBox
    /\ RLt(I(0), area(last.out))
    /\ last.out.space = "PDF"

\* the last call ended with an exception
Raised == "raised" \in DOMAIN last

\* C18: from_list raises exactly when the list does not have 4 elements and
\* then returns no box; TransformChain(matrix) raises exactly when the shape is
\* not 3x3 and then creates no object; a list of 4 elements and a 3x3 matrix
\* are taken as they are.
C18_MalformedRejected ==
    /\ [](/\ last.op = "from_list" =>
                 LET coords == last.args[1]
                 IN  /\ Raised <=> Len(coords) # 4
                     /\ Raised => last.out = NoBox
                     /\ ~Raised => last.out = BBox(coords[1], coords[2], coords[3],
                                                   coords[4], last.args[2])
          /\ last.op = "TransformChain" =>
                 /\ Raised <=> shape(last.matrix) # <<3, 3>>
                 /\ ~Raised => heap[last.out].matrix = last.matrix)
    /\ [][(last'.op = "TransformChain" /\ "raised" \in DOMAIN last') => heap' = heap]_vars

\* a list of five coordinates has been refused after a 3x3 matrix was taken
C18_Witness ==
    /\ Len(heap) >= 1
    /\ last.op = "from_list"
    /\ Len(last.args[1]) = 5
    /\ Raised
    /\ last.out = NoBox

\* C17: pad, pad_xy, scale, union, intersection, clip and with_space leave
\* every existing box, the receiver and the argument among them, as it was,
\* and the box they return is a new object; with_space keeps the four
\* coordinates of the receiver and sets the space.
C17_MethodsDoNotMutate ==
    /\ [][/\ \A b \in BoxIds : boxes'[b] = boxes[b]
          /\ last'.out # None =>
                 (last'.out = Len(boxes) + 1 /\ Len(boxes') = Len(boxes) + 1)]_vars
    /\ [](last.op = "with_space" =>
             LET b == boxes[last.self]
                 r == boxes[last.out]
             IN  /\ <<r.x1, r.y1, r.x2, r.y2>> = <<b.x1, b.y1, b.x2, b.y2>>
                 /\ r.space = last.args[1])

\* a PDF box has been retagged PREPROCESSED and is still a PDF box
C17_Witness ==
    /\ last.op = "with_space"
    /\ last.args[1] = "PREPROCESSED"
    /\ boxes[last.self].space = "PDF"
    /\ boxes[last.out].space = "PREPROCESSED"
    /\ last.out # last.self

\* out holds the elements of the list in, each once
IsPermutation(out, in) == Len(out) = Len(in) /\ Range(out) = Range(in)

\* the lists of frame f that hold item i
ListsHolding(f, i) == {l \in {"first", "spanning", "second"} : i \in Range(f[l])}

\* C19: sort_blocks_xy_cut and sort_blocks_simple return a permutation of
\* the blocks they are given, and at every cut each item is in exactly one of
\* left, spanning and right (top, spanning and bottom).
C19_OnlyReorders ==
    /\ (last.op \in {"sort_blocks_xy_cut", "sort_blocks_simple"} /\ "out" \in DOMAIN last) =>
           IsPermutation(last.out, last.blocks)
    /\ \A k \in 1..Len(stack) :
           stack[k].pc # "L83" =>
               \A i \in Range(stack[k].items) : Cardinality(ListsHolding(stack[k], i)) = 1

\* C20: where a cut is found both sides of it are non-empty, every call of
\* _xy_cut_recursive gets fewer items than its caller has, and the recursion
\* ends without exhausting the stack.
C20_RecursionTerminates ==
    /\ \A k \in 1..Len(stack) :
           stack[k].pc # "L83" => (stack[k].first # << >> /\ stack[k].second # << >>)
    /\ \A k \in 2..Len(stack) : Len(stack[k].items) < Len(stack[k - 1].items)
    /\ ~(last.op = "sort_blocks_xy_cut" /\ "raised" \in DOMAIN last)

\* a call of sort_blocks_xy_cut on two blocks or more has ended
XYCutEnded ==
    /\ last.op = "sort_blocks_xy_cut"
    /\ Len(last.blocks) > 1

\* in the list out every block of the set before comes earlier than every
\* block of the set after
AllPrecede(out, before, after) ==
    \A p, q \in 1..Len(out) : (out[p] \in before /\ out[q] \in after) => p < q

\* the blocks the code puts before a cut on an axis, and after it
BlocksBefore(blks, cut, axis) == {b \in Range(blks) : hi(b.bbox, axis) <= cut}

BlocksAfter(blks, cut, axis) == {b \in Range(blks) : lo(b.bbox, axis) >= cut}

\* C21: when the blocks of a call have a column gap of min_col_gap or more,
\* the call returns a list in which every block left of the cut comes before
\* every block right of it, whether or not a row gap qualifies as well.
C21_ColumnsFirst ==
    XYCutEnded =>
        LET v_cut == _find_vertical_cut(items_of(last.blocks), last.min_col_gap)
        IN  v_cut # NoCut =>
                /\ "out" \in DOMAIN last
                /\ AllPrecede(last.out, BlocksBefore(last.blocks, v_cut, "x"),
                              BlocksAfter(last.blocks, v_cut, "x"))

\* the list is in ascending order of (y1, x1)
AscendingYX(out) ==
    \A p, q \in 1..Len(out) :
        p < q => ~KeyBefore(<<out[q].bbox.y1, out[q].bbox.x1>>,
                            <<out[p].bbox.y1, out[p].bbox.x1>>)

\* C22: when the blocks of a call have no column gap but a row gap of
\* min_row_gap or more, the call returns a list in which every block above
\* the cut comes before every block below it; when they have neither, it
\* returns them in ascending order of (y1, x1).
C22_RowsThenFlat ==
    XYCutEnded =>
        LET items == items_of(last.blocks)
            h_cut == _find_horizontal_cut(items, last.min_row_gap)
        IN  _find_vertical_cut(items, last.min_col_gap) = NoCut =>
                /\ "out" \in DOMAIN last
                /\ IF h_cut # NoCut
                   THEN AllPrecede(last.out, BlocksBefore(last.blocks, h_cut, "y"),
                                   BlocksAfter(last.blocks, h_cut, "y"))
                   ELSE IsPermutation(last.out, last.blocks) /\ AscendingYX(last.out)

\* the bounding boxes of a list of blocks, in its order
bboxes_of(blks) == [k \in 1..Len(blks) |-> blks[k].bbox]

\* C23: sort_blocks_xy_cut called with the same thresholds on two lists that
\* are permutations of each other returns the same sequence of bounding boxes.
C23_OrderOfInputIrrelevant ==
    (last.op = "sort_blocks_xy_cut" /\ "first" \in DOMAIN last) =>
        /\ "out" \in DOMAIN last
        /\ "out" \in DOMAIN last.first
        /\ bboxes_of(last.out) = bboxes_of(last.first.out)

\* str.split(sep): the pieces of s between the occurrences of the character
\* sep, cur being the piece begun before the k-th character
RECURSIVE split(_, _, _, _)
split(s, sep, k, cur) ==
    IF k > Len(s) THEN <<cur>>
    ELSE IF s[k] = sep THEN <<cur>> \o split(s, sep, k + 1, << >>)
    ELSE split(s, sep, k + 1, Append(cur, s[k]))

\* the texts of the cells of a row
texts_of(row) == [c \in 1..Len(row) |-> row[c].text]

\* C24: the text of a table without rows is empty; otherwise it has one line
\* per row, in row order, and the line of a row holds the texts of its cells
\* in cell order with a tab between them, whatever their spans and header
\* flags; rows [[A, B], [C, D]] give A tab B newline C tab D.
C24_TableText ==
    last.op = "TableBlock.text" =>
        LET rows == last.self.rows
            lines == split(last.out, "\n", 1, << >>)
        IN  /\ rows = << >> => last.out = << >>
            /\ rows # << >> =>
                   /\ Len(lines) = Len(rows)
                   /\ \A r \in 1..Len(rows) :
                          IF rows[r] = << >> THEN lines[r] = << >>
                          ELSE split(lines[r], "\t", 1, << >>) = texts_of(rows[r])
            /\ (Len(rows) = 2 /\ texts_of(rows[1]) = << <<"A">>, <<"B">> >>
                              /\ texts_of(rows[2]) = << <<"C">>, <<"D">> >>) =>
                   last.out = <<"A", "\t", "B", "\n", "C", "\t", "D">>

\* the text of a table of two rows with merged and header cells has been read
C24_Witness ==
    /\ last.op = "TableBlock.text"
    /\ Len(last.self.rows) = 2
    /\ Len(last.self.rows[1]) = 2
    /\ last.self.rows[1][1].col_span = 2
    /\ last.self.rows[1][1].is_header
    /\ texts_of(last.self.rows[2]) = << <<"C">>, <<"D">> >>
    /\ last.out = <<"A", "\t", "B", "\n", "C", "\t", "D">>

\* the gaps of the items on an axis: <<a, b>> with a < b, a the end of a box
\* and b the start of one, and no box reaching into the open interval between
Gaps(items, axis) ==
    {g \in {hi(i[2], axis) : i \in Range(items)} \X {lo(i[2], axis) : i \in Range(items)} :
        /\ g[1] < g[2]
        /\ \A i \in Range(items) : hi(i[2], axis) <= g[1] \/ lo(i[2], axis) >= g[2]}

\* the gaps of min_gap or more
Qualifying(items, min_gap, axis) ==
    {g \in Gaps(items, axis) : g[2] - g[1] >= min_gap}

\* cut is the midpoint of the gap, to the nearest float
IsMidpoint(cut, g) ==
    /\ g[1] <= cut /\ cut <= g[2]
    /\ 2 * cut - (g[1] + g[2]) \in {-1, 0, 1}

C26_ClipFitsWithinBounds ==
    last.op = "clip" =>
        /\ contains_bbox(last.args[2], last.out)
        /\ last.out.space = last.args[1].space

\* the square of the distance of two points
DistSq(p, q) ==
    RAdd(RMul(RSub(p[1], q[1]), RSub(p[1], q[1])), RMul(RSub(p[2], q[2]), RSub(p[2], q[2])))

\* the cross product of p - c and q - c: positive where q is counter-clockwise
\* of p as seen from c
Cross(c, p, q) ==
    RSub(RMul(RSub(p[1], c[1]), RSub(q[2], c[2])), RMul(RSub(p[2], c[2]), RSub(q[1], c[1])))

\* C27: rotate(angle, center) is the one matrix of translate(-cx, -cy), then
\* rotate(angle), then translate(cx, cy); applied to a point it leaves the
\* center where it is, keeps the distance to the center and turns
\* counter-clockwise: by 90 degrees (x, y) goes to (-y, x) and by 180 degrees
\* to (-x, -y) relative to the center, so rotate(90) maps (100, 0) to (0, 100).
C27_RotateAboutCenter ==
    /\ last.op = "rotate" =>
           LET c == last.center
               origin == <<I(0), I(0)>>
           IN  heap[last.out].matrix =
                   compose(compose(translate(RNeg(c[1]), RNeg(c[2])),
                                   rotate(last.angle_deg, origin)),
                           translate(c[1], c[2]))
    /\ last.op = "apply_point" =>
           \A a \in Angles, c \in Centers :
               heap[last.self].matrix = rotate(a, c) =>
                   LET p == last.pt
                       q == last.out
                       dx == RSub(p[1], c[1])
                       dy == RSub(p[2], c[2])
                   IN  /\ p = c => q = c
                       /\ DistSq(q, c) = DistSq(p, c)
                       /\ a = 90 => q = <<RSub(c[1], dy), RAdd(c[2], dx)>>
                       /\ a = 180 => q = <<RSub(c[1], dx), RSub(c[2], dy)>>
                       /\ (a \in {53, 90} /\ p # c) => RLt(I(0), Cross(c, p, q))
                       /\ (a = 90 /\ c = <<I(0), I(0)>> /\ p = <<I(100), I(0)>>) =>
                              q = <<I(0), I(100)>>

\* rotate(90) has mapped (100, 0) to (0, 100)
C27_Witness ==
    /\ last.op = "apply_point"
    /\ heap[last.self].matrix = rotate(90, <<I(0), I(0)>>)
    /\ last.pt = <<I(100), I(0)>>
    /\ last.out = <<I(0), I(100)>>

\* C28: where a cut is found on an axis no item touches it or straddles it:
\* each item ends before the cut or starts after it, so none is spanning and
\* none passes both the test of the first part (x2 <= v, y2 <= h) and the
\* test of the second (x1 >= v, y1 >= h).
C28_NoItemOnTheCut ==
    /\ last.op = "_find_cut" =>
           (last.out # NoCut =>
                \A i \in Range(last.items) :
                    hi(i[2], last.axis) < last.out \/ lo(i[2], last.axis) > last.out)
    /\ \A k \in 1..Len(stack) :
           stack[k].pc # "L83" =>
               /\ stack[k].spanning = << >>
               /\ Range(stack[k].first) \cap Range(stack[k].second) = {}

\* C29 as claimed: in every state, a cached inverse that has a cached inverse
\* of its own has the very object it is cached in.
C29_CacheConsistent ==
    \A t \in Objs :
        (heap[t].inverse # None /\ heap[heap[t].inverse].inverse # None) =>
            heap[heap[t].inverse].inverse = t

\* the inverse of each matrix a shared transform or its inverse has
InverseOf ==
    LET shared == {m \in SharedMatrices : ~Singular(m)}
    IN  [m \in shared \cup {linalg_inv(n) : n \in shared} |-> linalg_inv(m)]

\* C29: in every state, the cached inverse of a transform has the inverse of
\* its matrix, and a cached inverse of that, whichever object it is, has the
\* matrix of the transform.
C29_CacheConsistentInValue ==
    \A t \in Objs :
        heap[t].inverse # None =>
            LET i == heap[t].inverse
            IN  /\ heap[i].matrix = InverseOf[heap[t].matrix]
                /\ heap[i].inverse # None => heap[heap[i].inverse].matrix = heap[t].matrix

\* two threads have inverted transform 1 and got different objects; the one
\* that is no longer cached still points back to transform 1
C29_Witness ==
    /\ \A th \in Threads : thr[th].pc = "done" /\ thr[th].self = 1
    /\ \E i \in Objs :
           /\ heap[i].inverse = 1
           /\ heap[1].inverse # i
           /\ heap[heap[1].inverse].matrix = heap[i].matrix

\* the matrices of the named constructors that map the axes to the axes and
\* can be inverted: scales by factors other than 0, translations, flip_y,
\* rotations by multiples of 90 degrees
AxisAlignedNamed ==
    {identity}
    \cup {scale(a[1], a[2]) : a \in {c \in ScaleArgs : c[1] # I(0) /\ c[2] # I(0)}}
    \cup {translate(d[1], d[2]) : d \in TranslateArgs}
    \cup {rotate(a[1], a[2]) : a \in {c \in RotateArgs : c[1] % 90 = 0}}
    \cup {from_dpi_scale(a[1], a[2]) : a \in DpiArgs}
    \cup {flip_y(h) : h \in FlipHeights}

\* the chains made of them alone
AxisAlignedChains ==
    AxisAlignedNamed \cup {compose(a, b) : a \in AxisAlignedNamed, b \in AxisAlignedNamed}

\* a box was mapped by a chain and back by its inverse
RoundTripDone == last.op = "apply_bbox" /\ "box" \in DOMAIN last

====
